---- MODULE Spec2Model ----
(***************************************************************************)
(* Model of include/rapidcheck/detail/Arbitrary.hpp: the built-in          *)
(* generators Arbitrary<T> (integers), Arbitrary<bool> and                 *)
(* Arbitrary<std::pair<T1, T2>>, their operator()() and their shrink().    *)
(*                                                                         *)
(* RandomEngine::Atom is 64 bits wide in the build; the model keeps the    *)
(* arithmetic of the source but scales the atom to AtomBits bits.  The     *)
(* integer types are uint8_t and int8_t, and uintw_t / intw_t, the types   *)
(* that are as wide as an atom (uint64_t / int64_t in the build).          *)
(***************************************************************************)
EXTENDS Integers, Sequences, FiniteSets, TLC

\* ------------------------------------------------------------- bounds ----
AtomBits == 10
TapeLen == 2
MaxSizeFactor == 2

\* ------------------------------------------------ constants and types ----
kReferenceSize == 100

basicBits == AtomBits

randIntMax == 2^basicBits - 1

Atoms == 0..randIntMax

IntTypes == {"uint8_t", "int8_t", "uintw_t", "intw_t"}

IsSigned(T) == T \in {"int8_t", "intw_t"}

Width(T) == IF T \in {"uint8_t", "int8_t"} THEN 8 ELSE basicBits

Digits(T) == IF IsSigned(T) THEN Width(T) - 1 ELSE Width(T)

TMin(T) == IF IsSigned(T) THEN -(2^Digits(T)) ELSE 0

TMax(T) == 2^Digits(T) - 1

TRange(T) == TMin(T)..TMax(T)

\* Integer types of lower rank than int: arithmetic on them is done in int.
IsPromoted(T) == T \in {"uint8_t", "int8_t"}

Abs(n) == IF n < 0 THEN -n ELSE n

\* a bool as the integer it converts to: false is 0, true is 1
Bool(b) == IF b THEN 1 ELSE 0

Min(a, b) == IF a < b THEN a ELSE b

\* static_cast<T>(n): reduction modulo 2^Width(T) into the range of T.
Cast(T, n) ==
    LET m == n % (2^Width(T))
    IN  IF m > TMax(T) THEN m - 2^Width(T) ELSE m

RECURSIVE BitAnd(_, _)
BitAnd(a, b) ==
    IF a = 0 \/ b = 0 THEN 0
    ELSE (a % 2) * (b % 2) + 2 * BitAnd(a \div 2, b \div 2)

\* ------------------------------------------------- ambient parameters ----
Unbound == [kind |-> "unbound", atom |-> 0]

NullNode == [kind |-> "null", atom |-> 0]

Node(a) == [kind |-> "node", atom |-> a]

\* currentNode.hasBinding() && (*currentNode != nullptr)
HasNode(node) == node.kind = "node"

\* RandomEngine::nextAtom(): the engine is the stream of its coming atoms.
NextAtom(eng) == [atom |-> Head(eng), engine |-> Tail(eng)]

\* RoseNode::atom()
NodeAtom(node) == node.atom

AtomSamples == {1, 2^(basicBits - 1) + 5, randIntMax}

NodeAtoms == {2^(basicBits - 1) + 6}

NodeBindings == {Unbound, NullNode} \cup {Node(a) : a \in NodeAtoms}

Sizes == (0..kReferenceSize) \cup {k * kReferenceSize : k \in 2..MaxSizeFactor}

Tapes == [1..TapeLen -> AtomSamples]

\* ------------------------------------------- Arbitrary<T>::operator() ----
ClampedSize(size) == Min(size, kReferenceSize)

\* nBits taken from the full width of T, sign bit included
NBitsFromWidth(T, size) == (ClampedSize(size) * Width(T)) \div kReferenceSize

NBits(T, size) == (ClampedSize(size) * Digits(T)) \div kReferenceSize

\* ~(randIntMax << (nBits - 1)): one bit fewer than Mask
MaskNarrow(nBits) == randIntMax - ((randIntMax * 2^(nBits - 1)) % 2^basicBits)

\* ~((randIntMax - 1) << nBits): one bit more than Mask
MaskWide(nBits) == randIntMax - (((randIntMax - 1) * 2^nBits) % 2^basicBits)

\* ~((randIntMax - 1) << (nBits - 1)), in the width of an atom
Mask(nBits) == randIntMax - (((randIntMax - 1) * 2^(nBits - 1)) % 2^basicBits)

\* the value computed from the atom r once nBits is known (lines 36-52)
IntValue(T, nBits, r) ==
    IF nBits = 0 THEN 0
    ELSE LET x == Cast(T, BitAnd(r, Mask(nBits)))
         IN  IF IsSigned(T)
             THEN Cast(T, x * (IF r \div 2^(basicBits - 1) = 0 THEN 1 ELSE -1))
             ELSE x

\* a variant that asks for an atom only when it needs one
IntProduceLazyDraw(T, size, node, eng) ==
    LET nBits == NBits(T, size)
        draws == nBits > 0 /\ ~HasNode(node)
        r     == IF HasNode(node) THEN NodeAtom(node)
                 ELSE IF draws THEN NextAtom(eng).atom ELSE 0
    IN  [value  |-> IntValue(T, nBits, r),
         engine |-> IF draws THEN NextAtom(eng).engine ELSE eng,
         nBits  |-> nBits,
         atom   |-> r]

\* Arbitrary<T>::operator()() under the bindings (size, node, eng): the value
\* returned, the engine afterwards, and the locals nBits and r.
IntProduce(T, size, node, eng) ==
    LET r     == IF HasNode(node) THEN NodeAtom(node) ELSE NextAtom(eng).atom
        after == IF HasNode(node) THEN eng ELSE NextAtom(eng).engine
        nBits == NBits(T, size)
    IN  [value  |-> IntValue(T, nBits, r),
         engine |-> after,
         nBits  |-> nBits,
         atom   |-> r]

\* Arbitrary<bool>::operator()(): a uint8_t at the reference size, low bit.
BoolProduce(node, eng) ==
    LET p == IntProduce("uint8_t", kReferenceSize, node, eng)
    IN  [value |-> Bool(p.value % 2 = 0), engine |-> p.engine]

\* Arbitrary<std::pair<T1, T2>>::operator()(): the two picks are arguments of
\* one call, so the build decides which of them runs first.
PairProduce(T1, T2, size, node, eng, order) ==
    IF order = "first-then-second"
    THEN LET p1 == IntProduce(T1, size, node, eng)
             p2 == IntProduce(T2, size, node, p1.engine)
         IN  [value |-> <<p1.value, p2.value>>, engine |-> p2.engine]
    ELSE LET p2 == IntProduce(T2, size, node, eng)
             p1 == IntProduce(T1, size, node, p2.engine)
         IN  [value |-> <<p1.value, p2.value>>, engine |-> p1.engine]

EvaluationOrders == {"first-then-second", "second-then-first"}

\* ------------------------------------------------- shrink strategies ----
\* shrink::constant(list): the given candidates, in the given order.
Constant(list) == list

\* shrink::nothing<T>(): no candidates.
Nothing == <<>>

\* shrink::sequentially(s1, s2): the candidates of s1, then those of s2.
Sequentially(s1, s2) == s1 \o s2

\* shrink::map(s, f) with the two mappers of the pair generator: f applied to
\* every candidate of s, in order.
MapWithSecond(s, second) == [i \in 1..Len(s) |-> <<s[i], second>>]

MapWithFirst(s, first) == [i \in 1..Len(s) |-> <<first, s[i]>>]

\* shrink::towards(value, target): repeated bisection of the distance, rounding
\* towards the target, down to the target itself.  A distance d is halved
\* once for each power of two that is at most d.
Towards(value, target) ==
    LET d == Abs(value - target)
        n == Cardinality({k \in 0..(basicBits + 1) : 2^k <= d})
    IN  [i \in 1..n |-> IF value > target THEN target + (d \div 2^i)
                                          ELSE target - (d \div 2^i)]

\* ------------------------------------------------ Arbitrary<T>::shrink ----
\* What constants.push_back(-value) can store.  Types below int are negated
\* in int and converted back to T; for the others -value is evaluated in T and
\* overflows, without a defined result, when value is the minimum of T.
NegateOutcomes(T, value) ==
    IF IsPromoted(T) THEN {Cast(T, -value)}
    ELSE IF -value \in TRange(T) THEN {-value}
    ELSE TRange(T)

\* Arbitrary<T>::shrink(value), neg being what -value evaluated to
IntShrink(T, value, neg) ==
    Sequentially(Constant(IF value < 0 THEN <<neg>> ELSE <<>>),
                 Towards(value, Cast(T, 0)))

\* Arbitrary<bool>::shrink(bool), a non-const member function
BoolShrink(value) ==
    IF value = Bool(TRUE) THEN Constant(<<Bool(FALSE)>>) ELSE Nothing

\* gen::Generator<T>::shrink(T) const, which every generator inherits
GeneratorShrink(value) == Nothing

\* The function a call of shrink on the boolean generator runs: the call names
\* Arbitrary<bool> and a non-const object, or it goes through Generator<bool>,
\* whose virtual shrink(bool) const Arbitrary<bool> does not override.
BoolShrinkVia(via, value) ==
    IF via = "Arbitrary<bool>" THEN BoolShrink(value) ELSE GeneratorShrink(value)

BoolCallers == {"Arbitrary<bool>", "Generator<bool>"}

\* gen::arbitrary<T>().shrink(v) as the pair generator calls it
ComponentShrink(T, v) ==
    IF T = "bool" THEN BoolShrink(v)
    ELSE IntShrink(T, v, CHOOSE n \in NegateOutcomes(T, v) : TRUE)

\* the two strategies of the pair generator in the other order
PairShrinkSecondFirst(T1, T2, pair) ==
    Sequentially(MapWithFirst(ComponentShrink(T2, pair[2]), pair[1]),
                 MapWithSecond(ComponentShrink(T1, pair[1]), pair[2]))

\* Arbitrary<std::pair<T1, T2>>::shrink(pair)
PairShrink(T1, T2, pair) ==
    Sequentially(MapWithSecond(ComponentShrink(T1, pair[1]), pair[2]),
                 MapWithFirst(ComponentShrink(T2, pair[2]), pair[1]))

\* ------------------------------------------------------------- inputs ----
PairProduceTypes == {"uint8_t", "int8_t"}

PairShrinkTypes == {"bool", "uint8_t", "int8_t"}

ComponentValues(T) ==
    IF T = "bool" THEN {Bool(FALSE), Bool(TRUE)}
    ELSE {TMin(T), -5, 0, 3, TMax(T)} \cap TRange(T)

NoSubject == [kind |-> "none", ty |-> <<>>, value |-> 0]

IntSubjects == {[kind |-> "int", ty |-> <<T>>, value |-> v] :
                    <<T, v>> \in UNION {{T} \X TRange(T) : T \in IntTypes}}

BoolSubjects == {[kind |-> "bool", ty |-> <<"bool">>, value |-> Bool(b)] : b \in BOOLEAN}

PairSubjects ==
    UNION {{[kind |-> "pair", ty |-> <<T1, T2>>, value |-> <<a, b>>] :
                <<a, b>> \in ComponentValues(T1) \X ComponentValues(T2)} :
           <<T1, T2>> \in PairShrinkTypes \X PairShrinkTypes}

NoCall == [op |-> "none", ty |-> <<>>, engine |-> <<>>, nBits |-> 0, atom |-> 0,
           order |-> ""]

\* -------------------------------------------------------------- state ----
VARIABLES
    phase,        \* "generate": a value is being produced; "shrink": one is being shrunk
    currentSize,  \* the binding of gen::currentSize()
    currentNode,  \* the binding of param::CurrentNode
    engine,       \* the bound RandomEngine: the atoms it will hand out next
    call,         \* the latest operator()() call: generator, engine before, locals
    result,       \* what that call returned (<<>> before any call)
    subject,      \* the value being shrunk
    called,       \* shrink(subject) has been called
    via,          \* the class through which it was called
    cands         \* the candidates it returned, in order

vars == <<phase, currentSize, currentNode, engine, call, result,
          subject, called, via, cands>>

genVars == <<currentSize, currentNode, engine, call, result>>

shrinkVars == <<subject, called, via, cands>>

Init ==
    /\ phase \in {"generate", "shrink"}
    /\ called = FALSE
    /\ via = ""
    /\ cands = <<>>
    /\ call = NoCall
    /\ result = <<>>
    /\ IF phase = "generate"
       THEN /\ currentSize \in Sizes
            /\ currentNode \in NodeBindings
            /\ engine \in Tapes
            /\ subject = NoSubject
       ELSE /\ currentSize = 0
            /\ currentNode = Unbound
            /\ engine = <<>>
            /\ subject \in IntSubjects \cup BoolSubjects \cup PairSubjects

\* the atoms a call needs from the engine are among those the model holds
CanDraw(n) == HasNode(currentNode) \/ Len(engine) >= n

ProduceInt(T) ==
    /\ phase = "generate"
    /\ CanDraw(1)
    /\ LET p == IntProduce(T, currentSize, currentNode, engine)
       IN  /\ result' = <<p.value>>
           /\ engine' = p.engine
           /\ call' = [op |-> "int", ty |-> <<T>>, engine |-> engine,
                       nBits |-> p.nBits, atom |-> p.atom, order |-> ""]
    /\ UNCHANGED <<phase, currentSize, currentNode, shrinkVars>>

ProduceBool ==
    /\ phase = "generate"
    /\ CanDraw(1)
    /\ LET p == BoolProduce(currentNode, engine)
       IN  /\ result' = <<p.value>>
           /\ engine' = p.engine
           /\ call' = [NoCall EXCEPT !.op = "bool", !.ty = <<"bool">>,
                                     !.engine = engine]
    /\ UNCHANGED <<phase, currentSize, currentNode, shrinkVars>>

ProducePair(T1, T2) ==
    /\ phase = "generate"
    /\ CanDraw(2)
    /\ \E order \in EvaluationOrders :
         LET p == PairProduce(T1, T2, currentSize, currentNode, engine, order)
         IN  /\ result' = p.value
             /\ engine' = p.engine
             /\ call' = [NoCall EXCEPT !.op = "pair", !.ty = <<T1, T2>>,
                                       !.engine = engine, !.order = order]
    /\ UNCHANGED <<phase, currentSize, currentNode, shrinkVars>>

ShrinkInt ==
    /\ phase = "shrink"
    /\ subject.kind = "int"
    /\ ~called
    /\ \E neg \in (IF subject.value < 0
                   THEN NegateOutcomes(subject.ty[1], subject.value) ELSE {0}) :
         cands' = IntShrink(subject.ty[1], subject.value, neg)
    /\ called' = TRUE
    /\ via' = "Arbitrary<T>"
    /\ UNCHANGED <<phase, subject, genVars>>

ShrinkBool ==
    /\ phase = "shrink"
    /\ subject.kind = "bool"
    /\ ~called
    /\ \E c \in BoolCallers :
         /\ cands' = BoolShrinkVia(c, subject.value)
         /\ via' = c
    /\ called' = TRUE
    /\ UNCHANGED <<phase, subject, genVars>>

ShrinkPair ==
    /\ phase = "shrink"
    /\ subject.kind = "pair"
    /\ ~called
    /\ cands' = PairShrink(subject.ty[1], subject.ty[2], subject.value)
    /\ called' = TRUE
    /\ via' = "Arbitrary<pair>"
    /\ UNCHANGED <<phase, subject, genVars>>

\* The search for a smaller value moves to the first candidate.
TakeFirst ==
    /\ phase = "shrink"
    /\ called
    /\ cands # <<>>
    /\ subject' = [subject EXCEPT !.value = Head(cands)]
    /\ called' = FALSE
    /\ via' = ""
    /\ cands' = <<>>
    /\ UNCHANGED <<phase, genVars>>

Next ==
    \/ \E T \in IntTypes : ProduceInt(T)
    \/ ProduceBool
    \/ \E T1 \in PairProduceTypes, T2 \in PairProduceTypes : ProducePair(T1, T2)
    \/ ShrinkInt
    \/ ShrinkBool
    \/ ShrinkPair
    \/ TakeFirst

Spec == Init /\ [][Next]_vars

\* The search for a smaller integer alone: shrink is called on the value and
\* the search moves to the first candidate, for as long as there is one.
WalkInit == Init /\ phase = "shrink" /\ subject.kind = "int"

WalkNext == ShrinkInt \/ TakeFirst

WalkSpec == WalkInit /\ [][WalkNext]_vars /\ WF_vars(ShrinkInt) /\ WF_vars(TakeFirst)

TypeOK ==
    /\ phase \in {"generate", "shrink"}
    /\ currentSize \in Sizes
    /\ currentNode \in NodeBindings
    /\ Len(engine) <= TapeLen
    /\ called \in BOOLEAN

\* ------------------------------------------------------------- claims ----
IntCall == call.op = "int"

\* the number of non-sign bits of T: its width, less one when T is signed
NonSignBits(T) == Width(T) - Bool(IsSigned(T))

\* C1: producing an integer is a function of the size and the random state
\* only: a call made with the same size and the same engine under any other
\* binding of the current node returns the value this call returned.
ProduceIsPure ==
    IntCall =>
        \A n \in NodeBindings :
            (HasNode(n) \/ Len(call.engine) >= 1) =>
                IntProduce(call.ty[1], currentSize, n, call.engine).value = result[1]

\* C2: the uint8_t generator returns 0 for every atom at size 0, and at the
\* reference size it returns the low byte of its atom, so that every value
\* 0..255, 255 included, is returned for some atom.
U8Boundaries ==
    (IntCall /\ call.ty[1] = "uint8_t") =>
        /\ currentSize = 0 =>
              /\ result[1] = 0
              /\ \A a \in Atoms : IntValue("uint8_t", call.nBits, a) = 0
        /\ currentSize = kReferenceSize =>
              /\ result[1] = call.atom % 256
              /\ \A v \in 0..255 :
                    \E a \in {v, v + 256} : IntValue("uint8_t", call.nBits, a) = v

U8Reaches255 ==
    /\ IntCall
    /\ call.ty[1] = "uint8_t"
    /\ currentSize = kReferenceSize
    /\ result = <<255>>

\* C7 as stated: nBits is the bit-width W of the type at the reference size,
\* for signed and unsigned types alike, and 0 at size 0.
NBitsIsWidthAtReference ==
    IntCall =>
        /\ currentSize = kReferenceSize => call.nBits = Width(call.ty[1])
        /\ currentSize = 0 => call.nBits = 0

\* C7 amended: nBits is floor(size * D / ReferenceSize), D being the number of
\* non-sign bits of the type (W when unsigned, W - 1 when signed); it is D at
\* the reference size and 0 at size 0.
NBitsIsDigitsAtReference ==
    IntCall =>
        LET D == NonSignBits(call.ty[1])
        IN  /\ currentSize <= kReferenceSize =>
                  call.nBits = (currentSize * D) \div kReferenceSize
            /\ currentSize = kReferenceSize => call.nBits = D
            /\ currentSize = 0 => call.nBits = 0

SignedAtReference ==
    /\ IntCall
    /\ call.ty[1] = "int8_t"
    /\ currentSize = kReferenceSize
    /\ call.nBits = 7

\* C9 as stated, for the calls made with no current node: when nBits is 0 the
\* call returns 0 and leaves the engine as it was, and when nBits > 0 it draws
\* exactly one atom.
AtomDrawnOnlyWhenNeeded ==
    (IntCall /\ ~HasNode(currentNode)) =>
        IF call.nBits = 0
        THEN result = <<0>> /\ engine = call.engine
        ELSE engine = Tail(call.engine)

\* C9 amended: every call takes exactly one atom, before nBits is looked at:
\* with no current node the engine hands out one atom, whether nBits is 0 or
\* not; with a current node the atom is the node's and the engine is left as it
\* was.  The call returns 0 when nBits is 0, and otherwise the low nBits bits of
\* that atom, negated for a signed type when the top bit of the same atom is set.
OneAtomPerCall ==
    IntCall =>
        LET T == call.ty[1]
            r == call.atom
            negative == IsSigned(T) /\ r >= 2^(basicBits - 1)
        IN  /\ HasNode(currentNode) =>
                  engine = call.engine /\ r = currentNode.atom
            /\ ~HasNode(currentNode) =>
                  /\ Len(call.engine) >= 1
                  /\ engine = Tail(call.engine)
                  /\ r = Head(call.engine)
            /\ call.nBits = 0 => result = <<0>>
            /\ call.nBits > 0 =>
                  result[1] = (IF negative THEN -1 ELSE 1) * (r % 2^(call.nBits))

AtomDrawnAtZeroBits ==
    /\ IntCall
    /\ ~HasNode(currentNode)
    /\ call.nBits = 0
    /\ result = <<0>>
    /\ engine = Tail(call.engine)

\* C10: a produced value x has |x| <= 2^nBits - 1, nBits being
\* floor(min(size, ReferenceSize) * D / ReferenceSize) and D the number of
\* non-sign bits; a signed generator never returns the minimum of its type, -x
\* is a value of the type, and x is still produced at every larger size.
ProducedRange ==
    IntCall =>
        LET T == call.ty[1]
            x == result[1]
            n == (Min(currentSize, kReferenceSize) * NonSignBits(T)) \div kReferenceSize
        IN  /\ call.nBits = n
            /\ Abs(x) <= 2^n - 1
            /\ x \in TRange(T)
            /\ IsSigned(T) => (x # TMin(T) /\ -x \in TRange(T))
            /\ \A s \in {t \in Sizes : t > currentSize /\
                             (t = currentSize + 1 \/ t > kReferenceSize)} :
                  \E a \in {Abs(x), Abs(x) + 2^(basicBits - 1)} :
                      IntValue(T, NBits(T, s), a) = x

NegativeAboveReference ==
    /\ IntCall
    /\ call.ty[1] = "int8_t"
    /\ currentSize > kReferenceSize
    /\ result[1] < 0

\* C8: with no current node, a pair is produced from the stream left to
\* right: its first component is made from the first atom the engine hands
\* out and its second component from the second.
PairLeftToRight ==
    (call.op = "pair" /\ ~HasNode(currentNode)) =>
        /\ result[1] = IntValue(call.ty[1], NBits(call.ty[1], currentSize),
                                call.engine[1])
        /\ result[2] = IntValue(call.ty[2], NBits(call.ty[2], currentSize),
                                call.engine[2])

\* C3: from every value of every integer type, the minimum and the maximum
\* included, moving to the first shrink candidate again and again reaches a
\* value whose shrink sequence is empty.
ShrinkWalkTerminates ==
    (phase = "shrink" /\ subject.kind = "int") ~> (called /\ cands = <<>>)

\* C4: for v < 0 the first candidate is the absolute value of v and the rest
\* is towards(v, 0); for v >= 0 the candidates are towards(v, 0).
IntShrinkOrder ==
    (subject.kind = "int" /\ called) =>
        LET v == subject.value
        IN  IF v < 0
            THEN /\ cands # <<>>
                 /\ Head(cands) = Abs(v)
                 /\ Tail(cands) = Towards(v, 0)
            ELSE cands = Towards(v, 0)

\* C5: the candidates of a pair (a, b) are (x, b) for the candidates x of a,
\* in order, and then (a, y) for the candidates y of b, in order; no candidate
\* differs from (a, b) in both components, and no candidate that changes the
\* second component comes before one that changes the first.
PairShrinkOneComponent ==
    (subject.kind = "pair" /\ called) =>
        LET a  == subject.value[1]
            b  == subject.value[2]
            s1 == ComponentShrink(subject.ty[1], a)
            s2 == ComponentShrink(subject.ty[2], b)
        IN  /\ Len(cands) = Len(s1) + Len(s2)
            /\ \A i \in 1..Len(s1) : cands[i] = <<s1[i], b>>
            /\ \A j \in 1..Len(s2) : cands[Len(s1) + j] = <<a, s2[j]>>
            /\ \A i \in 1..Len(cands) : cands[i][1] = a \/ cands[i][2] = b
            /\ \A i, j \in 1..Len(cands) :
                  (cands[i][2] # b /\ cands[j][1] # a) => j < i

PairShrinkBothComponents ==
    /\ subject.kind = "pair"
    /\ called
    /\ subject.ty = <<"int8_t", "bool">>
    /\ \E i, j \in 1..Len(cands) :
          i < j /\ cands[i][1] # subject.value[1] /\ cands[j][2] # subject.value[2]

\* C6: shrinking a boolean, through Arbitrary<bool> or through Generator<bool>,
\* gives the single candidate false for true and no candidate for false.
BoolShrinkCandidates ==
    (subject.kind = "bool" /\ called) =>
        cands = IF subject.value = Bool(TRUE) THEN <<Bool(FALSE)>> ELSE <<>>

====
